---------------------------- MODULE Spec2Model ----------------------------
(***************************************************************************)
(* A model of oseama (src/src/oseama.c): the Seama container tool with its *)
(* three commands info, entity and extract, and the helper oseama_skip.    *)
(*                                                                         *)
(* Streams are sequences of bytes (0..255).  A FILE is a byte sequence     *)
(* together with a position (fpos).  Every command is a small state        *)
(* machine over pc, one action per I/O step of its handler.                *)
(***************************************************************************)
EXTENDS Integers, Sequences, FiniteSets

VARIABLES
    op,           \* "info" | "entity" | "extract" | "skip": argv[1] (or the helper under test)
    pc,           \* position inside the running handler
    input,        \* the fixture the run was started on (never changes)
    seama,        \* bytes of FILE *seama (source of info/extract, target of entity)
    seekable,     \* whether fseek works on seama (regular file) or not (pipe)
    fpos,         \* position of FILE *seama
    out,          \* bytes written to FILE *out (extract)
    entity_idx,   \* global entity_idx (-1: not given)
    sealHdr,      \* struct seama_seal_header hdr as read (bytes), <<>> before
    hdr,          \* struct seama_entity_header hdr as read (bytes), <<>> before
    metasize,     \* local metasize
    imagesize,    \* local imagesize
    length,       \* local length (extract copy loop, oseama_skip argument)
    i,            \* local i, the running entity index
    err,          \* err of the command function: what main returns
    ierr,         \* err of oseama_info_entities / oseama_extract_entity
    pos,          \* size_t pos of oseama_info
    buf,          \* the bytes fread put in buf[0..metasize-1]
    printed,      \* the "Meta entry" lines written to stdout
    scan,         \* last metadata scan: declared size and buffer indexes it touched
    diag,         \* the diagnostics written to stderr
    faults,       \* I/O failures the environment has injected so far
    opts,         \* entity: the options of the command line, in order
    optind,       \* entity: index of the next option getopt returns
    curr_offset,  \* entity: local curr_offset
    ctx,          \* entity: the bytes fed to MD5_Update
    wrote,        \* entity: bytes physically appended in pass 1 (meta) and pass 2 (image)
    ret           \* return value of oseama_skip when called on its own

vars == <<op, pc, input, seama, seekable, fpos, out, entity_idx, sealHdr, hdr,
          metasize, imagesize, length, i, err, ierr, pos, buf, printed, scan,
          diag, faults, opts, optind, curr_offset, ctx, wrote, ret>>

(***************************************************************************)
(* Bounds of the model.                                                    *)
(***************************************************************************)
MaxEntities == 3      \* entities in a generated container
MaxFaults == 1        \* I/O failures injected in one run
MaxOpts == 3          \* options on an entity command line
MaxStream == 4        \* length of the short streams oseama_skip is tried on

(***************************************************************************)
(* Program constants.                                                      *)
(***************************************************************************)
SEAMA_MAGIC == 1587782679          \* 0x5ea3a417
SealHdrSize == 12                  \* sizeof(struct seama_seal_header), packed
EntityHdrSize == 28                \* sizeof(struct seama_entity_header), packed: 4+2+2+4+16
InfoBufSize == 1024                \* uint8_t buf[1024] of the info and extract paths
SkipBufSize == 1024                \* uint8_t buf[1024] of oseama_skip
FileBufSize == 128                 \* uint8_t buf[128] of the entity path
EIO == 5
EINVAL == 22
EACCES == 13
ENOMEM == 12

Min(a, b) == IF a < b THEN a ELSE b

oseama_min(x, y) == IF x < y THEN x ELSE y

(***************************************************************************)
(* Byte order: the header fields are big-endian on the wire.  A field of a *)
(* header struct is the sequence of its bytes in memory order.             *)
(***************************************************************************)
\* The four low bytes of x, most significant first (x mod 2^32 on the wire).
cpu_to_be32(x) ==
    <<(x \div 16777216) % 256, (x \div 65536) % 256, (x \div 256) % 256, x % 256>>

be32_to_cpu(b) == b[1] * 16777216 + b[2] * 65536 + b[3] * 256 + b[4]

cpu_to_be16(x) ==
    LET v == x % 65536
    IN  <<(v \div 256) % 256, v % 256>>

be16_to_cpu(b) == b[1] * 256 + b[2]

\* Fields of a header held as bytes (both structs share the first 12 bytes).
HdrMagic(h) == be32_to_cpu(SubSeq(h, 1, 4))
HdrMetasize(h) == be16_to_cpu(SubSeq(h, 7, 8))
HdrImagesize(h) == be32_to_cpu(SubSeq(h, 9, 12))

Zeros(n) == [k \in 1..n |-> 0]

(***************************************************************************)
(* stdio on a byte sequence.                                               *)
(***************************************************************************)
\* fread(buf, 1, n, fp): the bytes it delivers from position p.
FRead(s, p, n) ==
    IF p >= Len(s) \/ n <= 0 THEN <<>>
    ELSE SubSeq(s, p + 1, Min(p + n, Len(s)))

\* fwrite at position p of a "w+" file: a gap left by fseek reads as zeros.
WriteAt(s, p, bytes) ==
    LET base == IF Len(s) < p THEN s \o Zeros(p - Len(s)) ELSE s
    IN  IF Len(bytes) = 0 THEN s
        ELSE SubSeq(base, 1, p) \o bytes \o SubSeq(base, p + Len(bytes) + 1, Len(base))

\* What a failing fwrite of n bytes may have put out before it failed.
ShortCounts(n) == IF n <= 0 THEN {} ELSE {0, n - 1}

(***************************************************************************)
(* oseama_skip: fseek, and when fseek fails, read and discard.             *)
(***************************************************************************)
RECURSIVE SkipByRead(_, _, _)
SkipByRead(s, p, len) ==
    LET bytes == Len(FRead(s, p, oseama_min(SkipBufSize, len)))
    IN  IF bytes <= 0 THEN [ret |-> -EIO, pos |-> p]
        ELSE IF len - bytes = 0 THEN [ret |-> 0, pos |-> p + bytes]
        ELSE SkipByRead(s, p + bytes, len - bytes)

SkipBySeek(s, p, len) == [ret |-> 0, pos |-> p + len]

oseama_skip(s, p, canSeek, len) ==
    IF canSeek THEN SkipBySeek(s, p, len) ELSE SkipByRead(s, p, len)


(***************************************************************************)
(* The metadata scan of the info paths:                                    *)
(*     end = &buf[metasize - 1]; end[0] = NUL;                             *)
(*     for (tmp = buf; tmp < end && strlen(tmp); tmp += strlen(tmp) + 1)   *)
(*         print the entry at tmp                                          *)
(* b holds buf[0..metasize-1] (b[k+1] is buf[k]).  The result names the    *)
(* entries printed and the buffer indexes read or written.                 *)
(***************************************************************************)
\* strlen(&b[tmp]): a run that meets no NUL inside b runs off its end.
StrLen(b, tmp) ==
    LET nuls == {n \in 0..(Len(b) - tmp - 1) : b[tmp + n + 1] = 0}
    IN  IF nuls = {} THEN Len(b) - tmp
        ELSE CHOOSE n \in nuls : \A m \in nuls : n <= m

RECURSIVE ScanFrom(_, _, _, _)
ScanFrom(b, tmp, end, acc) ==
    IF tmp < end
    THEN LET n == StrLen(b, tmp)
             seen == [acc EXCEPT !.touched = @ \cup (tmp..(tmp + n))]
         IN  IF n # 0
             THEN ScanFrom(b, tmp + n + 1, end,
                           [seen EXCEPT !.entries = Append(@, SubSeq(b, tmp + 1, tmp + n))])
             ELSE seen
    ELSE acc

ForcedEnd(msize) == msize - 1

MetaScan(b, msize) ==
    LET end == ForcedEnd(msize)
        b0 == IF end >= 0 /\ end < Len(b) THEN [b EXCEPT ![end + 1] = 0] ELSE b
    IN  ScanFrom(b0, 0, end, [entries |-> <<>>, touched |-> {end}])

(***************************************************************************)
(* Fixtures: containers generated from a short description.                *)
(***************************************************************************)
BadMagic == SEAMA_MAGIC + 1           \* any value but the sentinel

MetaA == <<97, 0, 0, 0>>                        \* "a", NUL, padding
MetaAbC == <<97, 98, 0, 0, 99, 0, 0, 0>>        \* "ab", NUL, pad, "c", NUL, padding
MetaNoNul == <<97, 98, 99, 100>>                \* "abcd" with no terminator

\* Payload and digest field of the j-th entity: distinct per entity.  Fixture bytes
\* stay below 127, so that even a header read at a wrong offset decodes to sizes
\* below 2^31, the largest integers TLC computes with.
Image(j, n) == [k \in 1..n |-> 1 + ((16 * j + k) % 100)]
Md5Field(j) == [k \in 1..16 |-> 101 + (j % 20)]

SealHeader(magic, msz, isz) ==
    cpu_to_be32(magic) \o <<0, 0>> \o cpu_to_be16(msz) \o cpu_to_be32(isz)

EntityHeader(magic, msz, isz, md5) ==
    cpu_to_be32(magic) \o <<0, 0>> \o cpu_to_be16(msz) \o cpu_to_be32(isz) \o md5

EntityBytes(e, j) ==
    EntityHeader(e.magic, Len(e.meta), e.isize, Md5Field(j)) \o e.meta \o Image(j, e.isize)

RECURSIVE EntityStream(_, _)
EntityStream(es, j) ==
    IF j > Len(es) THEN <<>> ELSE EntityBytes(es[j], j) \o EntityStream(es, j + 1)

Container(in) ==
    LET full == SealHeader(in.seal.magic, Len(in.seal.meta), in.seal.isize)
                   \o in.seal.meta \o EntityStream(in.ents, 1)
    IN  SubSeq(full, 1, Len(full) - Min(in.cut, Len(full)))

\* Sentinel everywhere, seal image size 0, nothing cut off.
WellFormed(in) ==
    /\ in.seal.magic = SEAMA_MAGIC
    /\ in.seal.isize = 0
    /\ in.cut = 0
    /\ \A j \in 1..Len(in.ents) : in.ents[j].magic = SEAMA_MAGIC

SeqsUpTo(S, n) == UNION {[1..k -> S] : k \in 0..n}

Cuts == {0, 1, 30}                 \* bytes missing at the end of the stream

ExtractSeals ==
    { [magic |-> SEAMA_MAGIC, meta |-> MetaA, isize |-> 0],
      [magic |-> SEAMA_MAGIC, meta |-> <<>>, isize |-> 0],
      [magic |-> BadMagic, meta |-> MetaA, isize |-> 0] }

ExtractKinds ==
    { [magic |-> SEAMA_MAGIC, meta |-> <<>>, isize |-> 0],
      [magic |-> SEAMA_MAGIC, meta |-> MetaA, isize |-> 3],
      [magic |-> SEAMA_MAGIC, meta |-> MetaAbC, isize |-> SkipBufSize + 6],
      [magic |-> BadMagic, meta |-> MetaA, isize |-> 3] }

(***************************************************************************)
(* Variable groups.                                                        *)
(***************************************************************************)
fixVars == <<op, input, seekable, entity_idx>>
infoVars == <<pos, buf, printed, scan>>
buildVars == <<opts, optind, curr_offset, ctx, wrote>>

InitCommon ==
    /\ out = <<>>
    /\ sealHdr = <<>>
    /\ hdr = <<>>
    /\ metasize = 0
    /\ imagesize = 0
    /\ length = 0
    /\ i = 0
    /\ err = 0
    /\ ierr = 0
    /\ pos = 0
    /\ buf = <<>>
    /\ printed = <<>>
    /\ scan = [size |-> 0, touched |-> {}]
    /\ diag = {}
    /\ faults = 0
    /\ ret = 0

NoBuild ==
    /\ opts = <<>>
    /\ optind = 1
    /\ curr_offset = 0
    /\ ctx = <<>>
    /\ wrote = [meta |-> 0, image |-> 0]

(***************************************************************************)
(* extract: oseama_extract and oseama_extract_entity.                      *)
(***************************************************************************)
InitExtract ==
    /\ op = "extract"
    /\ pc = "x_start"
    /\ input \in [seal : ExtractSeals, ents : SeqsUpTo(ExtractKinds, MaxEntities), cut : Cuts]
    /\ seama = Container(input)
    /\ seekable \in BOOLEAN
    /\ fpos = 0
    /\ entity_idx \in -1..MaxEntities
    /\ InitCommon
    /\ NoBuild

\* oseama_extract up to the header read: the option check.
ExtractStart ==
    /\ op = "extract" /\ pc = "x_start"
    /\ IF entity_idx < 0
       THEN /\ err' = -EINVAL
            /\ diag' = diag \cup {"NoEntity"}
            /\ pc' = "done"
       ELSE /\ pc' = "x_seal"
            /\ UNCHANGED <<err, diag>>
    /\ UNCHANGED <<fixVars, infoVars, buildVars, seama, fpos, out, sealHdr, hdr,
                   metasize, imagesize, length, i, ierr, faults, ret>>

\* bytes = fread(&hdr, 1, sizeof(hdr), seama); metasize = be16_to_cpu(hdr.metasize)
ExtractReadSeal ==
    /\ op = "extract" /\ pc = "x_seal"
    /\ LET bytes == FRead(seama, fpos, SealHdrSize)
       IN  /\ fpos' = fpos + Len(bytes)
           /\ IF Len(bytes) # SealHdrSize
              THEN /\ err' = -EIO
                   /\ diag' = diag \cup {"NoSealHeader"}
                   /\ pc' = "done"
                   /\ UNCHANGED <<sealHdr, metasize>>
              ELSE /\ sealHdr' = bytes
                   /\ metasize' = HdrMetasize(bytes)
                   /\ pc' = "x_skip_seal"
                   /\ UNCHANGED <<err, diag>>
    /\ UNCHANGED <<fixVars, infoVars, buildVars, seama, out, hdr,
                   imagesize, length, i, ierr, faults, ret>>

\* oseama_skip(seama, metasize), its result dropped
ExtractSkipSeal ==
    /\ op = "extract" /\ pc = "x_skip_seal"
    /\ fpos' = oseama_skip(seama, fpos, seekable, metasize).pos
    /\ pc' = "x_hdr"
    /\ UNCHANGED <<fixVars, infoVars, buildVars, seama, out, sealHdr, hdr, metasize,
                   imagesize, length, i, err, ierr, diag, faults, ret>>

\* The loop head of oseama_extract_entity: read an entity header, check its magic,
\* and choose between skipping the entity and copying it.
ExtractReadHdr ==
    /\ op = "extract" /\ pc = "x_hdr"
    /\ LET bytes == FRead(seama, fpos, EntityHdrSize)
       IN  /\ fpos' = fpos + Len(bytes)
           /\ IF Len(bytes) # EntityHdrSize
              THEN /\ pc' = "done"
                   /\ UNCHANGED <<hdr, metasize, imagesize, ierr, diag>>
              ELSE /\ hdr' = bytes
                   /\ IF HdrMagic(bytes) # SEAMA_MAGIC
                      THEN /\ ierr' = -EINVAL
                           /\ diag' = diag \cup {"BadMagic"}
                           /\ pc' = "done"
                           /\ UNCHANGED <<metasize, imagesize>>
                      ELSE /\ metasize' = HdrMetasize(bytes)
                           /\ imagesize' = HdrImagesize(bytes)
                           /\ pc' = IF i # entity_idx THEN "x_skip" ELSE "x_write_hdr"
                           /\ UNCHANGED <<ierr, diag>>
    /\ UNCHANGED <<fixVars, infoVars, buildVars, seama, out, sealHdr,
                   length, i, err, faults, ret>>

\* oseama_skip(seama, metasize + imagesize); i++; continue
ExtractSkipEntity ==
    /\ op = "extract" /\ pc = "x_skip"
    /\ fpos' = oseama_skip(seama, fpos, seekable, metasize + imagesize).pos
    /\ i' = i + 1
    /\ pc' = "x_hdr"
    /\ UNCHANGED <<fixVars, infoVars, buildVars, seama, out, sealHdr, hdr, metasize,
                   imagesize, length, err, ierr, diag, faults, ret>>

\* A copy that forgets the payload.
CopyLengthMetaOnly(msz, isz) == msz

\* length = metasize + imagesize
CopyLength(msz, isz) == msz + isz

\* fwrite(&hdr, 1, sizeof(hdr), out); length = metasize + imagesize
ExtractWriteHdr ==
    /\ op = "extract" /\ pc = "x_write_hdr"
    /\ \/ /\ out' = out \o hdr
          /\ length' = CopyLength(metasize, imagesize)
          /\ pc' = "x_copy"
          /\ UNCHANGED <<ierr, diag, faults>>
       \/ /\ faults < MaxFaults
          /\ \E w \in ShortCounts(EntityHdrSize) : out' = out \o SubSeq(hdr, 1, w)
          /\ faults' = faults + 1
          /\ ierr' = -EIO
          /\ diag' = diag \cup {"WriteFailed"}
          /\ pc' = "done"
          /\ UNCHANGED length
    /\ UNCHANGED <<fixVars, infoVars, buildVars, seama, fpos, sealHdr, hdr, metasize,
                   imagesize, i, err, ret>>

\* One round of the copy loop that read something: write it out.  A failed write
\* leaves length untouched, so the check after the loop reports it as well.
ExtractCopyChunk ==
    /\ op = "extract" /\ pc = "x_copy"
    /\ LET bytes == FRead(seama, fpos, oseama_min(InfoBufSize, length))
       IN  /\ Len(bytes) > 0
           /\ fpos' = fpos + Len(bytes)
           /\ \/ /\ out' = out \o bytes
                 /\ length' = length - Len(bytes)
                 /\ UNCHANGED <<ierr, diag, faults, pc>>
              \/ /\ faults < MaxFaults
                 /\ \E w \in ShortCounts(Len(bytes)) : out' = out \o SubSeq(bytes, 1, w)
                 /\ faults' = faults + 1
                 /\ ierr' = -EIO
                 /\ diag' = diag \cup {"WriteFailed", "EntityIncomplete"}
                 /\ pc' = "done"
                 /\ UNCHANGED length
    /\ UNCHANGED <<fixVars, infoVars, buildVars, seama, sealHdr, hdr, metasize,
                   imagesize, i, err, ret>>

\* The copy loop ends on a read of nothing; if (length) reports the missing bytes.
ExtractCopyEnd ==
    /\ op = "extract" /\ pc = "x_copy"
    /\ Len(FRead(seama, fpos, oseama_min(InfoBufSize, length))) = 0
    /\ IF length # 0
       THEN /\ ierr' = -EIO
            /\ diag' = diag \cup {"EntityIncomplete"}
       ELSE UNCHANGED <<ierr, diag>>
    /\ pc' = "done"
    /\ UNCHANGED <<fixVars, infoVars, buildVars, seama, fpos, out, sealHdr, hdr, metasize,
                   imagesize, length, i, err, faults, ret>>

NextExtract ==
    \/ ExtractStart
    \/ ExtractReadSeal
    \/ ExtractSkipSeal
    \/ ExtractReadHdr
    \/ ExtractSkipEntity
    \/ ExtractWriteHdr
    \/ ExtractCopyChunk
    \/ ExtractCopyEnd

SpecExtract == InitExtract /\ [][NextExtract]_vars

(***************************************************************************)
(* info: oseama_info and oseama_info_entities.                             *)
(***************************************************************************)
MetaBig == Zeros(InfoBufSize)      \* a metadata block as large as the buffer

InfoSeals ==
    { [magic |-> SEAMA_MAGIC, meta |-> MetaAbC, isize |-> 0],
      [magic |-> SEAMA_MAGIC, meta |-> <<>>, isize |-> 0],
      [magic |-> SEAMA_MAGIC, meta |-> MetaBig, isize |-> 0],
      [magic |-> SEAMA_MAGIC, meta |-> MetaA, isize |-> 7],
      [magic |-> BadMagic, meta |-> MetaA, isize |-> 0] }

InfoKinds ==
    { [magic |-> SEAMA_MAGIC, meta |-> <<>>, isize |-> 0],
      [magic |-> SEAMA_MAGIC, meta |-> MetaAbC, isize |-> 3],
      [magic |-> SEAMA_MAGIC, meta |-> MetaNoNul, isize |-> 2],
      [magic |-> SEAMA_MAGIC, meta |-> MetaBig, isize |-> 1],
      [magic |-> BadMagic, meta |-> MetaA, isize |-> 3] }

InitInfo ==
    /\ op = "info"
    /\ pc = "i_seal"
    /\ input \in [seal : InfoSeals, ents : SeqsUpTo(InfoKinds, MaxEntities), cut : Cuts]
    /\ seama = Container(input)
    /\ seekable \in BOOLEAN
    /\ fpos = 0
    /\ entity_idx \in -1..MaxEntities
    /\ InitCommon
    /\ NoBuild

\* The scan of a block of msize bytes, as both info paths run it.  With msize = 0
\* the forced terminator lands on buf[-1], outside the array: the run either goes
\* on as if nothing happened or dies there.
ScanOutcome(msize, normal) ==
    \/ /\ pc' = normal
       /\ printed' = printed \o MetaScan(buf', msize).entries
       /\ scan' = [size |-> msize, touched |-> MetaScan(buf', msize).touched]
    \/ /\ ForcedEnd(msize) < 0
       /\ pc' = "crashed"
       /\ printed' = printed
       /\ scan' = [size |-> msize, touched |-> MetaScan(buf', msize).touched]

\* Seal header: read, decode, check magic, metadata size and image size.
InfoReadSeal ==
    /\ op = "info" /\ pc = "i_seal"
    /\ LET bytes == FRead(seama, fpos, SealHdrSize)
       IN  /\ fpos' = fpos + Len(bytes)
           /\ IF Len(bytes) # SealHdrSize
              THEN /\ err' = -EIO
                   /\ diag' = diag \cup {"NoSealHeader"}
                   /\ pc' = "done"
                   /\ UNCHANGED <<sealHdr, metasize, imagesize, pos>>
              ELSE /\ sealHdr' = bytes
                   /\ pos' = pos + Len(bytes)
                   /\ metasize' = HdrMetasize(bytes)
                   /\ imagesize' = HdrImagesize(bytes)
                   /\ IF HdrMagic(bytes) # SEAMA_MAGIC
                      THEN /\ err' = -EINVAL
                           /\ diag' = diag \cup {"BadMagic"}
                           /\ pc' = "done"
                      ELSE IF HdrMetasize(bytes) >= InfoBufSize
                      THEN /\ err' = -EINVAL
                           /\ diag' = diag \cup {"BufferTooSmall"}
                           /\ pc' = "done"
                      ELSE IF HdrImagesize(bytes) # 0
                      THEN /\ err' = -EINVAL
                           /\ diag' = diag \cup {"InvalidImageSize"}
                           /\ pc' = "done"
                      ELSE /\ pc' = "i_seal_meta"
                           /\ UNCHANGED <<err, diag>>
    /\ UNCHANGED <<fixVars, buildVars, seama, out, hdr, length, i, ierr, buf, printed,
                   scan, faults, ret>>

\* Seal metadata: read it, and print its entries when no entity was asked for.
InfoReadSealMeta ==
    /\ op = "info" /\ pc = "i_seal_meta"
    /\ LET bytes == FRead(seama, fpos, metasize)
       IN  /\ fpos' = fpos + Len(bytes)
           /\ buf' = bytes
           /\ IF Len(bytes) # metasize
              THEN /\ err' = -EIO
                   /\ diag' = diag \cup {"NoMeta"}
                   /\ pc' = "done"
                   /\ UNCHANGED <<pos, printed, scan>>
              ELSE /\ pos' = pos + Len(bytes)
                   /\ UNCHANGED <<err, diag>>
                   /\ IF entity_idx < 0
                      THEN ScanOutcome(metasize, "i_hdr")
                      ELSE /\ pc' = "i_hdr"
                           /\ UNCHANGED <<printed, scan>>
    /\ UNCHANGED <<fixVars, buildVars, seama, out, sealHdr, hdr, metasize, imagesize,
                   length, i, ierr, faults, ret>>

\* Loop head of oseama_info_entities: an entity header is read and decoded; the
\* entity is skipped when another one was asked for, else its sizes are checked.
InfoReadHdr ==
    /\ op = "info" /\ pc = "i_hdr"
    /\ LET bytes == FRead(seama, fpos, EntityHdrSize)
       IN  /\ fpos' = fpos + Len(bytes)
           /\ IF Len(bytes) # EntityHdrSize
              THEN /\ pc' = "done"
                   /\ UNCHANGED <<hdr, metasize, imagesize, ierr, diag, pos>>
              ELSE /\ hdr' = bytes
                   /\ pos' = pos + Len(bytes)
                   /\ IF HdrMagic(bytes) # SEAMA_MAGIC
                      THEN /\ ierr' = -EINVAL
                           /\ diag' = diag \cup {"BadMagic"}
                           /\ pc' = "done"
                           /\ UNCHANGED <<metasize, imagesize>>
                      ELSE /\ metasize' = HdrMetasize(bytes)
                           /\ imagesize' = HdrImagesize(bytes)
                           /\ IF entity_idx >= 0 /\ i # entity_idx
                              THEN /\ pc' = "i_skip"
                                   /\ UNCHANGED <<ierr, diag>>
                              ELSE IF HdrMetasize(bytes) >= InfoBufSize
                              THEN /\ ierr' = -EINVAL
                                   /\ diag' = diag \cup {"BufferTooSmall"}
                                   /\ pc' = "done"
                              ELSE /\ pc' = "i_meta"
                                   /\ UNCHANGED <<ierr, diag>>
    /\ UNCHANGED <<fixVars, buildVars, seama, out, sealHdr, length, i, err, buf, printed,
                   scan, faults, ret>>

\* oseama_skip(seama, metasize + imagesize); pos += ...; i++; continue
InfoSkipEntity ==
    /\ op = "info" /\ pc = "i_skip"
    /\ fpos' = oseama_skip(seama, fpos, seekable, metasize + imagesize).pos
    /\ pos' = pos + metasize + imagesize
    /\ i' = i + 1
    /\ pc' = "i_hdr"
    /\ UNCHANGED <<fixVars, buildVars, seama, out, sealHdr, hdr, metasize, imagesize,
                   length, err, ierr, buf, printed, scan, diag, faults, ret>>

\* Entity metadata: read it and print its entries.
InfoReadMeta ==
    /\ op = "info" /\ pc = "i_meta"
    /\ LET bytes == FRead(seama, fpos, metasize)
       IN  /\ fpos' = fpos + Len(bytes)
           /\ buf' = bytes
           /\ IF Len(bytes) # metasize
              THEN /\ ierr' = -EIO
                   /\ diag' = diag \cup {"NoMeta"}
                   /\ pc' = "done"
                   /\ UNCHANGED <<pos, printed, scan>>
              ELSE /\ pos' = pos + Len(bytes)
                   /\ UNCHANGED <<ierr, diag>>
                   /\ ScanOutcome(metasize, "i_skip_image")
    /\ UNCHANGED <<fixVars, buildVars, seama, out, sealHdr, hdr, metasize, imagesize,
                   length, i, err, faults, ret>>

\* oseama_skip(seama, imagesize); pos += imagesize; i++
InfoSkipImage ==
    /\ op = "info" /\ pc = "i_skip_image"
    /\ fpos' = oseama_skip(seama, fpos, seekable, imagesize).pos
    /\ pos' = pos + imagesize
    /\ i' = i + 1
    /\ pc' = "i_hdr"
    /\ UNCHANGED <<fixVars, buildVars, seama, out, sealHdr, hdr, metasize, imagesize,
                   length, err, ierr, buf, printed, scan, diag, faults, ret>>

NextInfo ==
    \/ InfoReadSeal
    \/ InfoReadSealMeta
    \/ InfoReadHdr
    \/ InfoSkipEntity
    \/ InfoReadMeta
    \/ InfoSkipImage

SpecInfo == InitInfo /\ [][NextInfo]_vars

(***************************************************************************)
(* entity: oseama_entity and its helpers.                                  *)
(***************************************************************************)
\* An option: t is the letter; s the argument of -m (the string) or the content of
\* the file -f names; n the offset of -b, or for -f whether the file opens (1/0).
StrAbc == <<97, 98, 99>>
StrAb == <<97, 98>>
StrC == <<99>>
StrLong == [k \in 1..65533 |-> 120]            \* a string of 65533 characters
FileSmall == <<1, 2, 3>>
FileTwoChunks == [k \in 1..(FileBufSize + 2) |-> 1 + (k % 100)]

BuildOpts ==
    { [t |-> "m", s |-> StrAbc, n |-> 0],
      [t |-> "m", s |-> StrAb, n |-> 0],
      [t |-> "m", s |-> StrC, n |-> 0],
      [t |-> "f", s |-> FileSmall, n |-> 1],
      [t |-> "f", s |-> FileTwoChunks, n |-> 1],
      [t |-> "f", s |-> FileSmall, n |-> 0],
      [t |-> "b", s |-> <<>>, n |-> 16],
      [t |-> "b", s |-> <<>>, n |-> 32],
      [t |-> "b", s |-> <<>>, n |-> 40] }

\* One command line whose metadata passes 65535 bytes: -m <65533 characters> -f file.
LongLines ==
    { <<[t |-> "m", s |-> StrLong, n |-> 0], [t |-> "f", s |-> FileSmall, n |-> 1]>> }

\* The digest of the bytes fed to MD5_Update: 16 bytes that depend on them.
MD5Digest(data) ==
    [k \in 1..16 |-> IF Len(data) = 0 THEN 1 + k
                     ELSE (data[1 + ((7 * k) % Len(data))] + Len(data) + k) % 256]

\* fwrite(buf, 1, n, fp) with at most `budget` failures left to inject: the count
\* it returns, and whether it failed.
FWriteOutcomes(n, budget) ==
    {[w |-> n, fault |-> 0]}
        \cup (IF budget > 0 THEN {[w |-> k, fault |-> 1] : k \in ShortCounts(n)} ELSE {})

\* oseama_entity_append_zeros(seama, len) on file f at position p: malloc may fail
\* (-ENOMEM, nothing written), fwrite may fall short (-EIO), else len is returned.
oseama_entity_append_zeros(f, p, len, budget) ==
    {[seama |-> WriteAt(f, p, Zeros(len)), fpos |-> p + len, ret |-> len,
      put |-> len, fault |-> 0, diag |-> {}]}
    \cup (IF budget > 0
          THEN {[seama |-> f, fpos |-> p, ret |-> -ENOMEM, put |-> 0, fault |-> 1, diag |-> {}]}
               \cup {[seama |-> WriteAt(f, p, Zeros(k)), fpos |-> p + k, ret |-> -EIO,
                      put |-> k, fault |-> 1, diag |-> {"WriteFailed"}] : k \in ShortCounts(len)}
          ELSE {})

\* oseama_entity_align(seama, curr_offset, alignment)
oseama_entity_align(f, p, curr, alignment, budget) ==
    IF curr % alignment # 0
    THEN oseama_entity_append_zeros(f, p, alignment - (curr % alignment), budget)
    ELSE {[seama |-> f, fpos |-> p, ret |-> 0, put |-> 0, fault |-> 0, diag |-> {}]}

\* oseama_entity_append_file(seama, in_path): the file is copied in chunks of
\* sizeof(buf); a failed fwrite ends the copy with -EIO, what the earlier chunks
\* and the failed one put out stays in the file.
RECURSIVE AppendFrom(_, _, _, _, _, _)
AppendFrom(f, p, data, done, len, budget) ==
    LET bytes == FRead(data, done, FileBufSize)
        n == Len(bytes)
    IN  IF n = 0
        THEN {[seama |-> f, fpos |-> p, ret |-> len, put |-> done, fault |-> 0, diag |-> {}]}
        ELSE AppendFrom(WriteAt(f, p, bytes), p + n, data, done + n, len + n, budget)
             \cup (IF budget > 0
                   THEN {[seama |-> WriteAt(f, p, SubSeq(bytes, 1, k)), fpos |-> p + k,
                          ret |-> -EIO, put |-> done + k, fault |-> 1,
                          diag |-> {"WriteFailed"}] : k \in ShortCounts(n)}
                   ELSE {})

oseama_entity_append_file(f, p, o, budget) ==
    IF o.n = 0
    THEN {[seama |-> f, fpos |-> p, ret |-> -EACCES, put |-> 0, fault |-> 0,
           diag |-> {"OpenFailed"}]}
    ELSE AppendFrom(f, p, o.s, 0, 0, budget)

InitEntity ==
    /\ op = "entity"
    /\ pc = "b_pass1"
    /\ opts \in SeqsUpTo(BuildOpts, MaxOpts) \cup LongLines
    /\ input = [seal |-> <<>>, ents |-> <<>>, cut |-> 0]
    /\ seama = <<>>
    /\ seekable = TRUE
    /\ fpos = EntityHdrSize
    /\ curr_offset = EntityHdrSize
    /\ entity_idx = -1
    /\ optind = 1
    /\ ctx = <<>>
    /\ wrote = [meta |-> 0, image |-> 0]
    /\ InitCommon

entityIdle == <<fixVars, infoVars, out, sealHdr, i, err, ierr, length, ret>>

\* First getopt loop, case 'm': the string and its NUL are written, then the
\* offset is aligned to 4.  What fwrite returns is counted even when it is short.
EntityMeta ==
    /\ op = "entity" /\ pc = "b_pass1"
    /\ optind <= Len(opts) /\ opts[optind].t = "m"
    /\ LET data == opts[optind].s \o <<0>>
       IN  \E o1 \in FWriteOutcomes(Len(data), MaxFaults - faults) :
             LET f1 == WriteAt(seama, fpos, SubSeq(data, 1, o1.w))
                 p1 == fpos + o1.w
                 c1 == curr_offset + o1.w
                 m1 == metasize + o1.w
             IN  \E o2 \in oseama_entity_align(f1, p1, c1, 4, MaxFaults - faults - o1.fault) :
                   /\ seama' = o2.seama
                   /\ fpos' = o2.fpos
                   /\ faults' = faults + o1.fault + o2.fault
                   /\ wrote' = [wrote EXCEPT !.meta = @ + o1.w + o2.put]
                   /\ IF o2.ret < 0
                      THEN /\ diag' = diag \cup o2.diag \cup {"AppendZerosFailed"}
                           /\ curr_offset' = c1
                           /\ metasize' = m1
                      ELSE /\ diag' = diag
                           /\ curr_offset' = c1 + o2.ret
                           /\ metasize' = m1 + o2.ret
    /\ optind' = optind + 1
    /\ UNCHANGED <<entityIdle, pc, opts, hdr, imagesize, ctx>>

\* Both getopt loops: an option of the other loop is passed over.
EntityPassOver ==
    /\ op = "entity"
    /\ optind <= Len(opts)
    /\ \/ pc = "b_pass1" /\ opts[optind].t \in {"f", "b"}
       \/ pc = "b_pass2" /\ opts[optind].t = "m"
    /\ optind' = optind + 1
    /\ UNCHANGED <<entityIdle, pc, opts, hdr, seama, fpos, metasize, imagesize, curr_offset,
                   ctx, wrote, diag, faults>>

\* getopt returns -1 at the end of the first loop; optind = 3 starts the second.
EntityRewind ==
    /\ op = "entity" /\ pc = "b_pass1"
    /\ optind > Len(opts)
    /\ optind' = 1
    /\ pc' = "b_pass2"
    /\ UNCHANGED <<entityIdle, opts, hdr, seama, fpos, metasize, imagesize, curr_offset,
                   ctx, wrote, diag, faults>>

\* Second loop, case 'f': the file is appended; a negative result is reported and
\* not counted.
EntityFile ==
    /\ op = "entity" /\ pc = "b_pass2"
    /\ optind <= Len(opts) /\ opts[optind].t = "f"
    /\ \E o \in oseama_entity_append_file(seama, fpos, opts[optind], MaxFaults - faults) :
         /\ seama' = o.seama
         /\ fpos' = o.fpos
         /\ faults' = faults + o.fault
         /\ wrote' = [wrote EXCEPT !.image = @ + o.put]
         /\ IF o.ret < 0
            THEN /\ diag' = diag \cup o.diag \cup {"AppendFileFailed"}
                 /\ UNCHANGED <<curr_offset, imagesize>>
            ELSE /\ diag' = diag
                 /\ curr_offset' = curr_offset + o.ret
                 /\ imagesize' = imagesize + o.ret
    /\ optind' = optind + 1
    /\ UNCHANGED <<entityIdle, pc, opts, hdr, metasize, ctx>>

\* Second loop, case 'b': sbytes = strtol(optarg) - curr_offset; a negative sbytes
\* is reported, else that many zeros are appended.
EntityPad ==
    /\ op = "entity" /\ pc = "b_pass2"
    /\ optind <= Len(opts) /\ opts[optind].t = "b"
    /\ LET sbytes == opts[optind].n - curr_offset
       IN  IF sbytes < 0
           THEN /\ diag' = diag \cup {"InvalidOffset"}
                /\ UNCHANGED <<seama, fpos, faults, wrote, curr_offset, imagesize>>
           ELSE \E o \in oseama_entity_append_zeros(seama, fpos, sbytes, MaxFaults - faults) :
                  /\ seama' = o.seama
                  /\ fpos' = o.fpos
                  /\ faults' = faults + o.fault
                  /\ wrote' = [wrote EXCEPT !.image = @ + o.put]
                  /\ IF o.ret < 0
                     THEN /\ diag' = diag \cup o.diag \cup {"AppendZerosFailed"}
                          /\ UNCHANGED <<curr_offset, imagesize>>
                     ELSE /\ diag' = diag
                          /\ curr_offset' = curr_offset + o.ret
                          /\ imagesize' = imagesize + o.ret
    /\ optind' = optind + 1
    /\ UNCHANGED <<entityIdle, pc, opts, hdr, metasize, ctx>>

\* The digest loop of oseama_entity_write_hdr from position p: chunks of at most
\* sizeof(buf) bytes until fread returns nothing; the result is what it consumed.
RECURSIVE DigestRead(_, _, _)
DigestRead(f, p, len) ==
    LET bytes == FRead(f, p, oseama_min(FileBufSize, len))
    IN  IF Len(bytes) = 0 THEN <<>>
        ELSE bytes \o DigestRead(f, p + Len(bytes), len - Len(bytes))

\* A digest loop cut short by a failing fread.
DigestConsumed(f, p, len, budget) ==
    LET all == DigestRead(f, p, len)
    IN  {[data |-> all, fault |-> 0]}
        \cup (IF budget > 0
              THEN {[data |-> SubSeq(all, 1, k), fault |-> 1] : k \in ShortCounts(Len(all))}
              ELSE {})

\* oseama_entity_write_hdr(seama, metasize, imagesize), whose result oseama_entity
\* drops, and the return of oseama_entity.
EntityWriteHdr ==
    /\ op = "entity" /\ pc = "b_pass2"
    /\ optind > Len(opts)
    /\ \E d \in DigestConsumed(seama, EntityHdrSize + metasize, imagesize, MaxFaults - faults) :
         LET h == EntityHeader(SEAMA_MAGIC, metasize, imagesize, MD5Digest(d.data))
         IN  /\ ctx' = d.data
             /\ hdr' = h
             /\ \E o \in FWriteOutcomes(EntityHdrSize, MaxFaults - faults - d.fault) :
                  /\ seama' = WriteAt(seama, 0, SubSeq(h, 1, o.w))
                  /\ fpos' = o.w
                  /\ faults' = faults + d.fault + o.fault
                  /\ diag' = IF o.fault = 1 THEN diag \cup {"HdrWriteFailed"} ELSE diag
    /\ pc' = "done"
    /\ UNCHANGED <<entityIdle, opts, optind, metasize, imagesize, curr_offset, wrote>>

NextEntity ==
    \/ EntityMeta
    \/ EntityPassOver
    \/ EntityRewind
    \/ EntityFile
    \/ EntityPad
    \/ EntityWriteHdr

SpecEntity == InitEntity /\ [][NextEntity]_vars

(***************************************************************************)
(* oseama_skip on its own: one call on a stream, from any position, for    *)
(* any length, with fseek working or failing.                              *)
(***************************************************************************)
SkipStreams ==
    {[k \in 1..n |-> k] : n \in 0..MaxStream} \cup {Image(1, SkipBufSize + MaxStream)}

SkipLengths ==
    (0..(MaxStream + 1))
        \cup {SkipBufSize, SkipBufSize + 1, SkipBufSize + MaxStream, SkipBufSize + MaxStream + 1}

InitSkip ==
    /\ op = "skip"
    /\ pc = "s_call"
    /\ seama \in SkipStreams
    /\ fpos \in 0..Min(Len(seama), MaxStream)
    /\ seekable \in BOOLEAN
    /\ \E n \in SkipLengths :
         /\ input = [pos |-> fpos, len |-> n]
         /\ InitCommon
    /\ entity_idx = -1
    /\ NoBuild

SkipCall ==
    /\ op = "skip" /\ pc = "s_call"
    /\ LET r == oseama_skip(seama, fpos, seekable, input.len)
       IN  /\ ret' = r.ret
           /\ fpos' = r.pos
    /\ length' = input.len
    /\ pc' = "done"
    /\ UNCHANGED <<fixVars, infoVars, buildVars, seama, out, sealHdr, hdr, metasize,
                   imagesize, i, err, ierr, diag, faults>>

NextSkip == SkipCall

SpecSkip == InitSkip /\ [][NextSkip]_vars

(***************************************************************************)
(* The three commands together.                                            *)
(***************************************************************************)
InitAll == InitInfo \/ InitEntity \/ InitExtract

NextAll == NextInfo \/ NextEntity \/ NextExtract

SpecAll == InitAll /\ [][NextAll]_vars

(***************************************************************************)
(* Properties.                                                             *)
(***************************************************************************)
ExtractDone == op = "extract" /\ pc = "done"
EntityDone == op = "entity" /\ pc = "done"

\* Offset in the source of the k-th entity (k counted from 1) of a fixture.
EntityOffset(in, k) ==
    SealHdrSize + Len(in.seal.meta) + Len(EntityStream(SubSeq(in.ents, 1, k - 1), 1))

\* A well-formed container, an index it holds, and every write accepted.
ExtractOfPresent ==
    /\ ExtractDone
    /\ WellFormed(input)
    /\ entity_idx \in 0..(Len(input.ents) - 1)
    /\ faults = 0

\* C1: extract with an index at or past the number of entities of a well-formed
\* container ends with a nonzero status (EntityNotFound), never with success.
C1_NotFoundFails ==
    (ExtractDone /\ WellFormed(input) /\ entity_idx >= Len(input.ents)) => err # 0

\* C2, as amended: for a well-formed container and an index it holds, when every
\* write to the destination is accepted, extract writes exactly the bytes of that
\* entity as they stand in the source: its 28-byte header, then meta_size +
\* image_size bytes, nothing of the seal or of another entity, nothing more or less.
C2_ExtractVerbatim ==
    ExtractOfPresent =>
        LET k == entity_idx + 1
            e == input.ents[k]
            off == EntityOffset(input, k)
            n == EntityHdrSize + Len(e.meta) + e.isize
        IN  /\ Len(out) = n
            /\ out = SubSeq(seama, off + 1, off + n)
            /\ SubSeq(out, 1, EntityHdrSize)
                   = EntityHeader(SEAMA_MAGIC, Len(e.meta), e.isize, Md5Field(k))
            /\ SubSeq(out, EntityHdrSize + 1, EntityHdrSize + Len(e.meta)) = e.meta
            /\ SubSeq(out, EntityHdrSize + Len(e.meta) + 1, n) = Image(k, e.isize)

\* C2 as stated: the output is a 24-byte header followed by meta_size + image_size
\* bytes, the bytes of the entity in the source.
C2_Header24 ==
    ExtractOfPresent =>
        LET k == entity_idx + 1
            e == input.ents[k]
            off == EntityOffset(input, k)
            n == 24 + Len(e.meta) + e.isize
        IN  /\ Len(out) = n
            /\ out = SubSeq(seama, off + 1, off + n)

\* Entity 2 of three, behind a skipped entity with a payload, copied in two rounds
\* from a source that cannot seek.
C2_Witness ==
    /\ ExtractOfPresent
    /\ entity_idx = 2
    /\ Len(input.ents) = 3
    /\ input.ents[2].isize > 0
    /\ input.ents[3].isize > InfoBufSize
    /\ ~seekable
    /\ Len(out) > InfoBufSize

\* C3: whenever a command has reported an error condition, its completion status
\* is nonzero.
C3_ErrorsFail ==
    (pc = "done" /\ diag # {}) => err # 0

\* C4: an entity run in which a pad target lay behind the running offset (the
\* InvalidOffset case; every read and write of the run accepted) does not complete
\* successfully.
C4_PadBehindFails ==
    (EntityDone /\ faults = 0 /\ "InvalidOffset" \in diag) => err # 0

\* The back-patched header is in the file.
HeaderWritten ==
    /\ Len(hdr) = EntityHdrSize
    /\ Len(seama) >= EntityHdrSize
    /\ SubSeq(seama, 1, EntityHdrSize) = hdr

\* C5: after entity, the header in the file describes the file: its meta_size is the
\* number of metadata bytes written behind the header, its image_size the number of
\* payload bytes written behind them, and the file is header + meta_size +
\* image_size bytes long.
C5_HeaderDescribesFile ==
    (EntityDone /\ HeaderWritten) =>
        /\ HdrMetasize(seama) = wrote.meta
        /\ HdrImagesize(seama) = wrote.image
        /\ Len(seama) = EntityHdrSize + HdrMetasize(seama) + HdrImagesize(seama)

\* C6: a header is written only with a digest over exactly the image_size bytes
\* behind the metadata; a digest pass that falls short leaves the header unwritten
\* and the run failed.
C6_DigestExact ==
    EntityDone =>
        /\ HeaderWritten =>
              /\ Len(ctx) = imagesize
              /\ Len(seama) >= EntityHdrSize + metasize + imagesize
              /\ ctx = SubSeq(seama, EntityHdrSize + metasize + 1,
                              EntityHdrSize + metasize + imagesize)
        /\ Len(ctx) < imagesize => (~HeaderWritten /\ err # 0)

\* The strings of the -m options, in order.
RECURSIVE MetaStrings(_)
MetaStrings(os) ==
    IF os = <<>> THEN <<>>
    ELSE (IF Head(os).t = "m" THEN <<Head(os).s>> ELSE <<>>) \o MetaStrings(Tail(os))

\* C7: the metadata block entity writes for non-empty NUL-free strings, smaller
\* than the buffer, decodes under the info scan to exactly those strings, in order.
C7_MetaRoundTrip ==
    (EntityDone /\ faults = 0 /\ metasize > 0 /\ metasize < InfoBufSize) =>
        MetaScan(SubSeq(seama, EntityHdrSize + 1, EntityHdrSize + metasize), metasize).entries
            = MetaStrings(opts)

\* A header that was read decodes to another magic than the sentinel.
BadMagicRead ==
    \/ Len(sealHdr) = SealHdrSize /\ HdrMagic(sealHdr) # SEAMA_MAGIC
    \/ Len(hdr) = EntityHdrSize /\ HdrMagic(hdr) # SEAMA_MAGIC

\* C8: once a header with a bad magic has been read, nothing more is read or
\* skipped from the source and nothing is written to the destination.
C8_AbortOnBadMagic ==
    [][(op \in {"info", "extract"} /\ BadMagicRead) => (fpos' = fpos /\ out' = out)]_vars

\* C9: the metadata scan reads and writes only buffer positions inside the region
\* the header declared.
C9_ScanInsideRegion ==
    scan.touched \subseteq 0..(scan.size - 1)

\* C10: the two paths of oseama_skip agree, succeed exactly when length bytes remain
\* and then leave the position advanced by length.
C10_SkipPathsAgree ==
    (op = "skip" /\ pc = "done") =>
        LET remain == input.len <= Len(seama) - input.pos
        IN  /\ SkipBySeek(seama, input.pos, input.len) = SkipByRead(seama, input.pos, input.len)
            /\ (ret = 0) <=> remain
            /\ ret = 0 => fpos = input.pos + input.len

=============================================================================
